---- MODULE Spec2Model ----
(***************************************************************************)
(* FullPipelineRenderer (suite/pts/deviceTests/opengl/jni/fullpipeline):   *)
(* the setUp / draw / tearDown lifecycle of the full-pipeline benchmark    *)
(* renderer, its heap objects, its texture and the GL/EGL calls it makes.  *)
(*                                                                         *)
(* Heap objects and GL textures are named by the number of the setUp call  *)
(* that allocated them.  NULL and the GL name 0 are both 0.  Lengths that  *)
(* the code keeps in floats are kept exact: count = 2^(workload-1) is an   *)
(* integer for workload >= 1, a scale of 1/count is kept as its            *)
(* denominator, and a translation of i - count/2 is kept doubled,          *)
(* 2*i - count, so that the half of an odd count (workload 1) is exact.    *)
(***************************************************************************)
EXTENDS Integers, Sequences, FiniteSets, TLC

\* ---- bounds of the model ----
MaxWorkload == 3   \* workloads 1..MaxWorkload are explored
MaxAllocs   == 3   \* setUp calls that get as far as allocating objects

\* ---- names ----
NULL == 0
Ids == 1 .. MaxAllocs
\* an indeterminate GLuint may be 0, the name of a texture setUp will
\* generate, or a name no texture ever gets
GarbageIds == 0 .. (MaxAllocs + 1)
FboIds == {7}
Kinds == {"program", "model", "view", "projection", "texture", "mesh", "sceneGraph"}
MatrixValues == {"identity", "other"}
GL_NO_ERROR == 0
GLErrors == {0, 1280}

VARIABLES
    mWorkload,          \* Renderer::mWorkload
    mFboId,             \* Renderer::mFboId
    mProgram,           \* Program*   (0 = NULL)
    mSceneGraph,        \* ProgramNode*
    mModelMatrix,       \* Matrix*
    mViewMatrix,        \* Matrix*
    mProjectionMatrix,  \* Matrix*
    mMesh,              \* Mesh*
    mTextureId,         \* GLuint
    live,               \* kind -> the objects of that kind that exist
    released,           \* kind -> object -> how often it was released
    nextId,             \* the name the next allocating setUp hands out
    modelValue,         \* the value of *mModelMatrix ("-": there is none)
    sceneNodes,         \* scene graph object -> its children, in order
    meshTexture,        \* mesh object -> the texture name it was built with
    glLog,              \* the GL/EGL/collaborator calls of the last handler
    lastOp,             \* the last handler called
    lastArg,            \* its inputs
    lastRet,            \* what it returned (FALSE too when it did not return)
    crashed,            \* the process died on a NULL dereference
    window              \* a setUp returned true and no tearDown has run since

vars == <<mWorkload, mFboId, mProgram, mSceneGraph, mModelMatrix, mViewMatrix,
          mProjectionMatrix, mMesh, mTextureId, live, released, nextId,
          modelValue, sceneNodes, meshTexture, glLog, lastOp, lastArg, lastRet,
          crashed, window>>

pointers == <<mProgram, mSceneGraph, mModelMatrix, mViewMatrix,
              mProjectionMatrix, mMesh>>

\* ---- the calls a handler makes ----
\* one call, with the framebuffer it names (glBindFramebuffer), the texture
\* it names (glDeleteTextures) or the model matrix value it is handed
\* (ProgramNode::draw)
Call(name) == [call |-> name, n |-> 0, model |-> "-"]
CallN(name, n) == [call |-> name, n |-> n, model |-> "-"]
CallM(name, m) == [call |-> name, n |-> 0, model |-> m]

\* ---- setUp ----
RECURSIVE Pow2(_)
\* pow(2, n) for n >= 0
Pow2(n) == IF n = 0 THEN 1 ELSE 2 * Pow2(n - 1)

\* float count = pow(2, mWorkload - 1)
Count(w) == Pow2(w - 1)

\* float middle = count / 2.0f, doubled
TwiceMiddleTruncated(count) == 2 * (count \div 2)
TwiceMiddle(count) == count

\* Matrix::newScale(scale, scale, scale) with scale = 1.0f / count, then
\* translate(i - middle, j - middle, 0.0f); the TransformationNode owns one
\* FullPipelineMesh built on mesh
GridNode(i, j, count, mesh) ==
    [scaleDen |-> count,
     tx2 |-> 2 * i - TwiceMiddle(count),
     ty2 |-> 2 * j - TwiceMiddle(count),
     tz2 |-> 0,
     meshes |-> <<mesh>>]

RECURSIVE InnerLoop(_, _, _, _)
\* for (int j = 0; j < count; j++) { ... mSceneGraph->addChild(transformNode); ... }
\* the children added from column j on, in order
InnerLoop(i, j, count, mesh) ==
    IF ~(j < count) THEN <<>>
    ELSE <<GridNode(i, j, count, mesh)>> \o InnerLoop(i, j + 1, count, mesh)

RECURSIVE OuterLoop(_, _, _)
\* for (int i = 0; i < count; i++) { for (int j ...) }
\* the children added from row i on, in order
OuterLoop(i, count, mesh) ==
    IF ~(i < count) THEN <<>>
    ELSE InnerLoop(i, 0, count, mesh) \o OuterLoop(i + 1, count, mesh)

\* if (programId == 0) return false
ProgramFailed(programId) == programId = 0

\* if (mTextureId == 0) return false
TextureFailedNever(textureId) == FALSE
TextureFailed(textureId) == textureId = 0

\* new: the objects of those kinds named id come to exist
Alloc(lv, kinds, id) ==
    [k \in Kinds |-> IF k \in kinds THEN lv[k] \cup {id} ELSE lv[k]]

SetUp ==
    /\ ~crashed
    /\ nextId <= MaxAllocs
    /\ lastOp' = "setUp"
    /\ UNCHANGED <<mWorkload, mFboId, released, crashed>>
    /\ \E baseOk \in BOOLEAN :
        IF ~baseOk THEN
            /\ lastArg' = [baseOk |-> baseOk]
            /\ glLog' = <<Call("Renderer::setUp")>>
            /\ lastRet' = FALSE
            /\ window' = FALSE
            /\ UNCHANGED <<pointers, mTextureId, live, nextId, modelValue,
                           sceneNodes, meshTexture>>
        ELSE \E programId \in {0, nextId} :
            IF ProgramFailed(programId) THEN
                /\ lastArg' = [baseOk |-> baseOk, programId |-> programId]
                /\ glLog' = <<Call("Renderer::setUp"),
                              CallN("createProgram", programId)>>
                /\ lastRet' = FALSE
                /\ window' = FALSE
                /\ UNCHANGED <<pointers, mTextureId, live, nextId, modelValue,
                               sceneNodes, meshTexture>>
            ELSE \E textureId \in {0, nextId}, fresh \in MatrixValues :
                LET id == nextId
                    count == Count(mWorkload)
                    early == {"program", "model", "view", "projection"}
                           \cup (IF textureId = 0 THEN {} ELSE {"texture"})
                IN
                /\ lastArg' = [baseOk |-> baseOk, programId |-> programId,
                               textureId |-> textureId]
                /\ glLog' = <<Call("Renderer::setUp"),
                              CallN("createProgram", programId),
                              CallN("genRandTex", textureId)>>
                /\ mProgram' = id
                /\ mModelMatrix' = id
                /\ modelValue' = fresh
                /\ mViewMatrix' = id
                /\ mProjectionMatrix' = id
                /\ mTextureId' = textureId
                /\ nextId' = id + 1
                /\ IF TextureFailed(textureId) THEN
                      /\ lastRet' = FALSE
                      /\ window' = FALSE
                      /\ live' = Alloc(live, early, id)
                      /\ UNCHANGED <<mMesh, mSceneGraph, sceneNodes, meshTexture>>
                   ELSE
                      /\ lastRet' = TRUE
                      /\ window' = TRUE
                      /\ live' = Alloc(live, early \cup {"mesh", "sceneGraph"}, id)
                      /\ mMesh' = id
                      /\ meshTexture' = [meshTexture EXCEPT ![id] = textureId]
                      /\ mSceneGraph' = id
                      /\ sceneNodes' = [sceneNodes EXCEPT
                                          ![id] = OuterLoop(0, count, id)]

\* ---- tearDown ----
\* delete p, glDeleteTextures(1, &p): deleting NULL, or a name that is not
\* an object, does nothing
Release(lv, kind, p) == [lv EXCEPT ![kind] = @ \ {p}]

\* a release of an object that exists or has existed is counted
CountRelease(rel, lv, kind, p) ==
    IF p \in Ids /\ (p \in lv[kind] \/ rel[kind][p] > 0)
    THEN [rel EXCEPT ![kind][p] = @ + 1]
    ELSE rel

\* if (mTextureId != 0) { glDeleteTextures(1, &mTextureId); ... }
DeletesTexture(textureId) == textureId # 0

\* mTextureId = 0, after the deletion
TextureIdKept(textureId) == textureId
TextureIdAfterDelete(textureId) == 0

\* the calls of tearDown up to the base class's, in order
TearDownCallsBaseFirst(textureId) ==
    <<Call("Renderer::tearDown")>> \o
    (IF DeletesTexture(textureId)
     THEN <<CallN("glDeleteTextures", textureId)>> ELSE <<>>)
TearDownCalls(textureId) ==
    (IF DeletesTexture(textureId)
     THEN <<CallN("glDeleteTextures", textureId)>> ELSE <<>>)
    \o <<Call("Renderer::tearDown")>>

\* if (!Renderer::tearDown()) return false
BaseTearDownFailed(baseOk) == ~baseOk

\* delete mModelMatrix ... delete mMesh, each pointer then set to NULL
DeleteOwned(lv) ==
    Release(Release(Release(Release(Release(Release(lv,
        "model", mModelMatrix), "view", mViewMatrix),
        "projection", mProjectionMatrix), "program", mProgram),
        "sceneGraph", mSceneGraph), "mesh", mMesh)

CountOwned(rel, lv) ==
    CountRelease(CountRelease(CountRelease(CountRelease(CountRelease(CountRelease(rel,
        lv, "model", mModelMatrix), lv, "view", mViewMatrix),
        lv, "projection", mProjectionMatrix), lv, "program", mProgram),
        lv, "sceneGraph", mSceneGraph), lv, "mesh", mMesh)

TearDown ==
    /\ ~crashed
    /\ \E baseOk \in BOOLEAN :
        LET textureId == mTextureId
            live1 == IF DeletesTexture(textureId)
                     THEN Release(live, "texture", textureId) ELSE live
            rel1 == IF DeletesTexture(textureId)
                    THEN CountRelease(released, live, "texture", textureId)
                    ELSE released
        IN
        /\ lastOp' = "tearDown"
        /\ lastArg' = [baseOk |-> baseOk, textureId |-> textureId]
        /\ glLog' = TearDownCalls(textureId)
        /\ mTextureId' = IF DeletesTexture(textureId)
                         THEN TextureIdAfterDelete(textureId) ELSE textureId
        /\ window' = FALSE
        /\ UNCHANGED <<mWorkload, mFboId, nextId, sceneNodes, meshTexture,
                       crashed>>
        /\ IF BaseTearDownFailed(baseOk) THEN
              /\ lastRet' = FALSE
              /\ live' = live1
              /\ released' = rel1
              /\ UNCHANGED <<pointers, modelValue>>
           ELSE
              /\ lastRet' = TRUE
              /\ modelValue' = "-"
              /\ live' = DeleteOwned(live1)
              /\ released' = CountOwned(rel1, live1)
              /\ mModelMatrix' = NULL
              /\ mViewMatrix' = NULL
              /\ mProjectionMatrix' = NULL
              /\ mProgram' = NULL
              /\ mSceneGraph' = NULL
              /\ mMesh' = NULL

\* ---- draw ----
\* glBindFramebuffer(GL_FRAMEBUFFER, (offscreen) ? mFboId : 0)
BindTarget(offscreen, fbo) == IF offscreen THEN fbo ELSE 0

\* the calls of draw up to the clear
DrawPrologue(offscreen, fbo) ==
    <<CallN("glBindFramebuffer", BindTarget(offscreen, fbo)),
      Call("glClearColor"), Call("glEnable"), Call("glEnable"),
      Call("glClear")>>

\* mModelMatrix->identity()
ModelNotReset(value) == value
ModelAfterIdentity(value) == "identity"

\* if (err != GL_NO_ERROR) return false
HasGLErrorNever(err) == FALSE
HasGLError(err) == err # GL_NO_ERROR

\* if (offscreen) { glFinish(); return true; }
\* else return eglSwapBuffers(mEglDisplay, mEglSurface);
DrawCompletionIgnoresSwap(offscreen, swapOk) ==
    IF offscreen THEN [calls |-> <<Call("glFinish")>>, ret |-> TRUE]
    ELSE [calls |-> <<Call("eglSwapBuffers")>>, ret |-> TRUE]
DrawCompletion(offscreen, swapOk) ==
    IF offscreen THEN [calls |-> <<Call("glFinish")>>, ret |-> TRUE]
    ELSE [calls |-> <<Call("eglSwapBuffers")>>, ret |-> swapOk]

Draw ==
    /\ ~crashed
    /\ lastOp' = "draw"
    /\ UNCHANGED <<mWorkload, mFboId, pointers, mTextureId, live, released,
                   nextId, sceneNodes, meshTexture, window>>
    /\ \E offscreen \in BOOLEAN :
        IF mModelMatrix = NULL THEN
            \* mModelMatrix->identity() on NULL
            /\ lastArg' = [offscreen |-> offscreen]
            /\ glLog' = DrawPrologue(offscreen, mFboId)
            /\ lastRet' = FALSE
            /\ crashed' = TRUE
            /\ UNCHANGED modelValue
        ELSE IF mSceneGraph = NULL \/ mProgram = NULL \/ mViewMatrix = NULL
                \/ mProjectionMatrix = NULL THEN
            \* mSceneGraph->draw(*mProgram, ...) on NULL
            /\ lastArg' = [offscreen |-> offscreen]
            /\ glLog' = DrawPrologue(offscreen, mFboId)
                        \o <<Call("Matrix::identity")>>
            /\ lastRet' = FALSE
            /\ crashed' = TRUE
            /\ modelValue' = ModelAfterIdentity(modelValue)
        ELSE \E after \in MatrixValues, err \in GLErrors :
            LET handed == ModelAfterIdentity(modelValue)
                upToError == DrawPrologue(offscreen, mFboId)
                             \o <<Call("Matrix::identity"),
                                  CallM("ProgramNode::draw", handed),
                                  CallN("glGetError", err)>>
            IN
            \* the scene graph takes the model matrix by reference
            /\ modelValue' = after
            /\ crashed' = FALSE
            /\ IF HasGLError(err) THEN
                  /\ lastArg' = [offscreen |-> offscreen, err |-> err]
                  /\ glLog' = upToError
                  /\ lastRet' = FALSE
               ELSE \E swapOk \in (IF offscreen THEN {TRUE} ELSE BOOLEAN) :
                  LET done == DrawCompletion(offscreen, swapOk) IN
                  /\ lastArg' = [offscreen |-> offscreen, err |-> err,
                                 swapOk |-> swapOk]
                  /\ glLog' = upToError \o done.calls
                  /\ lastRet' = done.ret

\* ---- the lifecycle ----
\* FullPipelineRenderer(window, workload): the six pointers are NULL;
\* mTextureId is not initialised
Init ==
    /\ mWorkload \in 1 .. MaxWorkload
    /\ mFboId \in FboIds
    /\ mProgram = NULL
    /\ mSceneGraph = NULL
    /\ mModelMatrix = NULL
    /\ mViewMatrix = NULL
    /\ mProjectionMatrix = NULL
    /\ mMesh = NULL
    /\ mTextureId \in GarbageIds
    /\ live = [k \in Kinds |-> {}]
    /\ released = [k \in Kinds |-> [id \in Ids |-> 0]]
    /\ nextId = 1
    /\ modelValue = "-"
    /\ sceneNodes = [id \in Ids |-> <<>>]
    /\ meshTexture = [id \in Ids |-> 0]
    /\ glLog = <<>>
    /\ lastOp = "none"
    /\ lastArg = <<>>
    /\ lastRet = FALSE
    /\ crashed = FALSE
    /\ window = FALSE

Next == SetUp \/ Draw \/ TearDown

Spec == Init /\ [][Next]_vars

\* ---- reading the calls of the last handler ----
Positions(name) == {k \in DOMAIN glLog : glLog[k].call = name}
Calls(name) == Cardinality(Positions(name))
\* every call named first comes before every call named second
Before(first, second) ==
    \A a \in Positions(first), b \in Positions(second) : a < b
\* the objects of a kind that exist or have existed
Allocated(kind) == live[kind] \cup {id \in Ids : released[kind][id] > 0}
Held == {mProgram, mSceneGraph, mModelMatrix, mViewMatrix, mProjectionMatrix,
         mMesh}

\* C1: setUp returns false when Renderer::setUp fails, when createProgram
\* yields 0 or when genRandTex yields 0, and true in every other case; when
\* it returns true the scene graph made by this call holds all count*count
\* children, each with its mesh node.
C1_SetUpResult ==
    lastOp = "setUp" =>
        /\ lastRet = (/\ lastArg.baseOk
                      /\ lastArg.programId # 0
                      /\ lastArg.textureId # 0)
        /\ lastRet =>
              /\ mSceneGraph = nextId - 1
              /\ mSceneGraph \in live["sceneGraph"]
              /\ Len(sceneNodes[mSceneGraph]) = Count(mWorkload) * Count(mWorkload)
              /\ \A k \in DOMAIN sceneNodes[mSceneGraph] :
                    Len(sceneNodes[mSceneGraph][k].meshes) = 1

\* a setUp that failed on the texture, after an earlier one that succeeded
C1_Witness ==
    /\ lastOp = "setUp"
    /\ ~lastRet
    /\ lastArg.baseOk
    /\ lastArg.programId # 0
    /\ lastArg.textureId = 0
    /\ mSceneGraph # NULL

\* C2: after a successful setUp the root has exactly count*count children,
\* count = 2^(workload-1), exactly one for every grid position (i, j) with
\* 0 <= i, j < count; each owns exactly one mesh node, on the one mesh mMesh,
\* is scaled by 1/count and translated by (i - count/2, j - count/2, 0).
C2_SceneGraphGrid ==
    (lastOp = "setUp" /\ lastRet) =>
        LET nodes == sceneNodes[mSceneGraph]
            count == Pow2(mWorkload - 1)
        IN
        /\ Len(nodes) = count * count
        /\ \A k \in DOMAIN nodes :
              /\ nodes[k].meshes = <<mMesh>>
              /\ nodes[k].scaleDen = count
              /\ nodes[k].tz2 = 0
        /\ \A i \in 0 .. (count - 1), j \in 0 .. (count - 1) :
              Cardinality({k \in DOMAIN nodes :
                              /\ nodes[k].tx2 = 2 * i - count
                              /\ nodes[k].ty2 = 2 * j - count}) = 1
        /\ mMesh \in live["mesh"]

\* a successful setUp with workload 3: a grid of 4 x 4
C2_Witness ==
    /\ lastOp = "setUp"
    /\ lastRet
    /\ mWorkload = 3
    /\ Len(sceneNodes[mSceneGraph]) = 16

\* C3: after any tearDown, whatever it returned, the renderer holds none of
\* the objects of the preceding setUp: every pointer is NULL, the texture id
\* is 0.
C3_AllDestroyedOnTearDown ==
    lastOp = "tearDown" =>
        /\ Held = {NULL}
        /\ mTextureId = 0

\* C4: program and texture are live in every state between a setUp that
\* returned true and its tearDown, and the renderer holds neither outside
\* that window (after a setUp that returned false, after tearDown).
C4_GpuResourcesOnlyInWindow ==
    /\ window => /\ mProgram \in live["program"]
                 /\ mTextureId \in live["texture"]
    /\ ~window => /\ mProgram = NULL
                  /\ mTextureId \notin live["texture"]

\* C5: a draw that reads a GPU error, offscreen or onscreen, returns false;
\* the error is read after the scene graph is drawn, and neither glFinish
\* nor eglSwapBuffers is called.
C5_DrawFailsOnGLError ==
    (lastOp = "draw" /\ ~crashed /\ lastArg.err # GL_NO_ERROR) =>
        /\ lastRet = FALSE
        /\ Calls("glGetError") = 1
        /\ Calls("ProgramNode::draw") = 1
        /\ Before("ProgramNode::draw", "glGetError")
        /\ Calls("glFinish") = 0
        /\ Calls("eglSwapBuffers") = 0

\* an offscreen draw that read a GPU error
C5_Witness ==
    /\ lastOp = "draw"
    /\ ~crashed
    /\ lastArg.offscreen
    /\ lastArg.err # GL_NO_ERROR
    /\ ~lastRet

\* C6: a draw that reads no GPU error ends with exactly one completion step:
\* offscreen, glFinish and no swap, returning true; onscreen, eglSwapBuffers
\* and no glFinish, returning what the swap returned.
C6_DrawCompletion ==
    (lastOp = "draw" /\ ~crashed /\ lastArg.err = GL_NO_ERROR) =>
        IF lastArg.offscreen
        THEN /\ Calls("glFinish") = 1
             /\ Calls("eglSwapBuffers") = 0
             /\ glLog[Len(glLog)].call = "glFinish"
             /\ lastRet = TRUE
        ELSE /\ Calls("eglSwapBuffers") = 1
             /\ Calls("glFinish") = 0
             /\ glLog[Len(glLog)].call = "eglSwapBuffers"
             /\ lastRet = lastArg.swapOk

\* an onscreen draw whose swap failed
C6_Witness ==
    /\ lastOp = "draw"
    /\ ~crashed
    /\ ~lastArg.offscreen
    /\ lastArg.err = GL_NO_ERROR
    /\ ~lastArg.swapOk
    /\ ~lastRet

\* C7: every draw binds the framebuffer (mFboId exactly when offscreen, else
\* 0), then clears, then resets the model matrix, then draws the scene
\* graph, then reads the GPU error, each once and in that order; the scene
\* graph is always handed an identity model matrix.  A draw that dies on a
\* NULL pointer has made a prefix of these calls.
C7_DrawOrder ==
    lastOp = "draw" =>
        /\ Calls("glBindFramebuffer") = 1
        /\ glLog[1] = CallN("glBindFramebuffer",
                            IF lastArg.offscreen THEN mFboId ELSE 0)
        /\ Calls("glClear") = 1
        /\ Before("glBindFramebuffer", "glClear")
        /\ Before("glClear", "Matrix::identity")
        /\ Before("Matrix::identity", "ProgramNode::draw")
        /\ Before("ProgramNode::draw", "glGetError")
        /\ \A k \in Positions("ProgramNode::draw") : glLog[k].model = "identity"
        /\ ~crashed =>
              /\ Calls("Matrix::identity") = 1
              /\ Calls("ProgramNode::draw") = 1
              /\ Calls("glGetError") = 1

\* an offscreen draw that returned, the scene graph having changed the model
\* matrix it was handed
C7_Witness ==
    /\ lastOp = "draw"
    /\ ~crashed
    /\ lastArg.offscreen
    /\ Calls("ProgramNode::draw") = 1
    /\ modelValue = "other"

\* C8: tearDown deletes the texture before it calls Renderer::tearDown,
\* whether or not that call succeeds, and returns false exactly when
\* Renderer::tearDown returns false.
C8_TearDownOrder ==
    lastOp = "tearDown" =>
        /\ Calls("Renderer::tearDown") = 1
        /\ lastArg.textureId # 0 =>
              /\ glLog[1] = CallN("glDeleteTextures", lastArg.textureId)
              /\ Before("glDeleteTextures", "Renderer::tearDown")
              /\ lastArg.textureId \notin live["texture"]
        /\ (lastRet = FALSE) <=> ~lastArg.baseOk

\* a tearDown whose base call failed and that deleted a texture of setUp's
C8_Witness ==
    /\ lastOp = "tearDown"
    /\ ~lastArg.baseOk
    /\ lastArg.textureId \in Ids
    /\ released["texture"][lastArg.textureId] = 1

\* C9: no texture generated by setUp is deleted more than once: a tearDown
\* deletes exactly when the texture id is not 0 and leaves the id 0, and a
\* draw leaves the texture id alone.
C9_TextureDeletedAtMostOnce ==
    [][/\ \A t \in Ids : released'["texture"][t] <= 1
       /\ lastOp' = "tearDown" =>
             /\ (Cardinality({k \in DOMAIN glLog' :
                                glLog'[k].call = "glDeleteTextures"}) = 1)
                    <=> (mTextureId # 0)
             /\ mTextureId' = 0
       /\ lastOp' = "draw" => mTextureId' = mTextureId]_vars

\* a tearDown that found the id 0 after a texture of setUp's was deleted
C9_Witness ==
    /\ lastOp = "tearDown"
    /\ lastArg.textureId = 0
    /\ \E t \in Ids : released["texture"][t] = 1

\* C10: when a tearDown returns true, everything any earlier setUp allocated
\* has been released exactly once: nothing is left live.
C10_NothingLeaked ==
    (lastOp = "tearDown" /\ lastRet) =>
        \A kind \in Kinds :
            /\ live[kind] = {}
            /\ \A id \in Allocated(kind) : released[kind][id] = 1

====
